---------------------------- MODULE Spec2Model ----------------------------
(***************************************************************************)
(* Model of the IoT anomaly-detection pipeline: the SQLite event store     *)
(* (src/src/data_handler.py), the feature engineer                         *)
(* (src/src/feature_engineer.py), the AnomalyDetector wrapper around the   *)
(* isolation forest (src/src/anomaly_detector.py) with its saved           *)
(* artifacts, the two scoring orchestrators, the CLI (src/main.py) and the *)
(* Flask dashboard (src/src/dashboard.py), and the process-wide model of   *)
(* the monitor (src/src/ai_model.py).                                      *)
(***************************************************************************)
EXTENDS Integers, Sequences, FiniteSets, TLC

(***************************************************************************)
(* Bounds of the model and constants of the program.                       *)
(***************************************************************************)
\* Largest number of rows the store is populated with.
MaxRows == 11

\* A request limit smaller than the minimum training size.
SmallLimit == 3

\* Largest number of API calls in one behaviour of the detector and of the
\* store specifications.
MaxCalls == 3

\* Largest number of handler invocations (CLI calls and dashboard requests)
\* in one behaviour.
MaxHandlers == 2

\* main.py:80, dashboard.py:164: minimum number of samples for training.
MinTrainSamples == 10

\* main.py:62, dashboard.py:151: default limit of the training fetch.
DefaultTrainLimit == 10000

\* config.py:15 (0.1, in percent), config.py:16, config.py:17.
CONTAMINATION == 10
N_ESTIMATORS == 100
RANDOM_STATE == 42

\* config.py:20: the trailing time window of events_per_window, in seconds.
TIME_WINDOW_SECONDS == 60

None == "None"

VARIABLES
    network_logs,   \* the network_logs table: row i has id i (AUTOINCREMENT)
    detector,       \* the AnomalyDetector instances, by owner
    call,           \* the last direct call of an API and its outcome
    cli,            \* the last CLI handler invocation and what it did
    req,            \* the dashboard request handled by each server thread
    ncalls,         \* number of calls / handler invocations so far
    feature_engineer,   \* the FeatureEngineer instances, by owner
    files,          \* the files on disk that hold model artifacts, by path
    ANOMALY_MODEL,  \* ai_model.py: the process-wide model instance
    stdout          \* the messages printed so far

\* The state outside the store, the detectors and the handlers.
restVars == <<feature_engineer, files, ANOMALY_MODEL, stdout>>

vars == <<network_logs, detector, call, cli, req, ncalls, restVars>>

(***************************************************************************)
(* Helpers.                                                                *)
(***************************************************************************)
\* A sequence given by a rule, as the tuple of its elements.
AsTuple(s) == <<>> \o s

Min(a, b) == IF a < b THEN a ELSE b

Max(a, b) == IF a > b THEN a ELSE b

Sign(a) == IF a > 0 THEN 1 ELSE IF a < 0 THEN 0 - 1 ELSE 0

\* The fraction n / d, for a feature whose value is not a whole number.
Rat(n, d) == [num |-> n, den |-> d]

\* The square root of the fraction n / d, for a standard deviation or a
\* z-score without its sign.
SqrtOf(n, d) == [sqrt_of |-> Rat(n, d)]

Abs(a) == IF a < 0 THEN -a ELSE a

RECURSIVE SumSeq(_)
SumSeq(s) == IF s = <<>> THEN 0 ELSE Head(s) + SumSeq(Tail(s))

\* The permutation that sorts keys in ascending order, equal keys kept in
\* their input order (the order a stable sort of at most 16 rows gives).
ArgSort(keys) ==
    LET n == Len(keys)
        rank(i) == 1 + Cardinality({j \in 1..n :
                        \/ keys[j] < keys[i]
                        \/ keys[j] = keys[i] /\ j < i})
    IN  AsTuple([p \in 1..n |-> CHOOSE i \in 1..n : rank(i) = p])

Reverse(s) == AsTuple([i \in 1..Len(s) |-> s[Len(s) + 1 - i]])

(***************************************************************************)
(* The event store: data_handler.py.                                       *)
(***************************************************************************)
Patterns == {"asc", "desc", "pairs"}

\* Timestamp of the i-th inserted row: in insertion order (the sample
\* generator), against it, or in insertion order with equal pairs.
TsOf(p, i) ==
    CASE p = "asc"   -> i
      [] p = "desc"  -> MaxRows + 2 - i
      [] p = "pairs" -> (i + 1) \div 2

\* insert_logs_batch of n logs into the empty table; is_anomaly and
\* anomaly_score take the column defaults.
InsertLogsBatch(n, p) ==
    AsTuple([i \in 1..n |->
        [id             |-> i,
         timestamp      |-> TsOf(p, i),
         device_id      |-> IF i % 2 = 1 THEN "D1" ELSE "D2",
         source_ip      |-> IF i % 3 = 0 THEN "10.0.0.2" ELSE "10.0.0.1",
         bytes_sent     |-> 100 * (1 + (i % 3)),
         bytes_received |-> 100 * (i % 2),
         is_anomaly     |-> 0,
         anomaly_score  |-> 0]])

\* get_recent_logs: SELECT * ... ORDER BY timestamp DESC LIMIT limit.  Rows
\* with equal timestamps come in the order of the backward scan of
\* idx_timestamp, the later row first.  A negative LIMIT is no limit.
GetRecentLogs(logs, limit) ==
    LET perm   == ArgSort(AsTuple([i \in 1..Len(logs) |-> logs[i].timestamp]))
        sorted == Reverse(AsTuple([i \in 1..Len(logs) |-> logs[perm[i]]]))
    IN  IF limit < 0 THEN sorted
        ELSE SubSeq(sorted, 1, Min(limit, Len(sorted)))

\* The UPDATE statement of update_anomaly_status: the rows WHERE id = log_id
\* get the two result columns, every other row and column is kept.
UpdateRows(logs, log_id, is_anomaly, anomaly_score) ==
    AsTuple([i \in 1..Len(logs) |->
        IF logs[i].id = log_id
        THEN [logs[i] EXCEPT !.is_anomaly = IF is_anomaly THEN 1 ELSE 0,
                             !.anomaly_score = anomaly_score]
        ELSE logs[i]])

\* update_anomaly_status as a whole: the statement, then commit and close.
\* It returns nothing: the outcome is None whether or not a row matched.
UpdateAnomalyStatus(logs, log_id, is_anomaly, anomaly_score) ==
    [logs    |-> UpdateRows(logs, log_id, is_anomaly, anomaly_score),
     outcome |-> None]

(***************************************************************************)
(* Feature engineering: feature_engineer.py.                               *)
(***************************************************************************)
\* A sort that puts the timestamp column in order and leaves the other
\* columns where they were.
SortValuesTimestampOnly(df) ==
    LET perm == ArgSort(AsTuple([i \in 1..Len(df) |-> df[i].timestamp]))
    IN  AsTuple([i \in 1..Len(df) |->
                    [df[i] EXCEPT !.timestamp = df[perm[i]].timestamp]])

\* A frame left in the order it was given.
SortValuesKeepOrder(df) == df

\* sort_values('timestamp') of the copied frame: whole rows move, so each
\* row keeps its id.
SortValues(df) ==
    LET perm == ArgSort(AsTuple([i \in 1..Len(df) |-> df[i].timestamp]))
    IN  AsTuple([i \in 1..Len(df) |-> df[perm[i]]])

\* The values a float column can hold besides the finite ones; they stand
\* outside the range of the finite values of the model.
NaN == 1000001
PosInf == 1000002
NegInf == 1000003

NonFinite == {NaN, PosInf, NegInf}

\* feature_engineer.py:74-75, 123-124: rolling(window=10, min_periods=1).
RollingWindow == 10

\* _compute_time_deltas: timestamp.diff().fillna(0)
DeltaT(df, i) == IF i = 1 THEN 0 ELSE df[i].timestamp - df[i - 1].timestamp

\* The difference to the row before, whatever its device.
DeltaTDeviceUngrouped(df, i) ==
    IF i = 1 THEN 0 ELSE df[i].timestamp - df[i - 1].timestamp

\* _compute_time_deltas: groupby('device_id')['timestamp'].diff().fillna(0)
DeltaTDevice(df, i) ==
    LET prev == {j \in 1..(i - 1) : df[j].device_id = df[i].device_id}
    IN  IF prev = {} THEN 0
        ELSE df[i].timestamp
               - df[CHOOSE j \in prev : \A k \in prev : k <= j].timestamp

\* _compute_time_deltas: groupby('source_ip')['timestamp'].diff().fillna(0)
DeltaTSource(df, i) ==
    LET prev == {j \in 1..(i - 1) : df[j].source_ip = df[i].source_ip}
    IN  IF prev = {} THEN 0
        ELSE df[i].timestamp
               - df[CHOOSE j \in prev : \A k \in prev : k <= j].timestamp

\* A window that grows from the first row and never drops a row.
WindowStartExpanding(i) == 1

\* rolling(window=10, min_periods=1): the window of position i starts 9
\* positions before it, or at the first row.
WindowStart(i) == Max(1, i - RollingWindow + 1)

\* The values of column x in the window of position i.
WindowValues(x, i) == SubSeq(x, WindowStart(i), i)

\* rolling(...).mean(): the sum of the window over its number of rows.
RollingMean(x, i) ==
    LET w == WindowValues(x, i)
    IN  Rat(SumSeq(w), Len(w))

\* rolling(...).std() without fillna(0): NaN for a window of one row.
RollingStdNoFill(x, i) ==
    LET w  == WindowValues(x, i)
        n  == Len(w)
        sq == AsTuple([k \in 1..n |-> w[k] * w[k]])
    IN  IF n < 2 THEN SqrtOf(NaN, 1)
        ELSE SqrtOf(n * SumSeq(sq) - SumSeq(w) * SumSeq(w), n * (n - 1))

\* rolling(...).std().fillna(0): the sample standard deviation of the
\* window, the square root of (n * sum(x^2) - sum(x)^2) / (n * (n - 1)); the
\* NaN of a window of one row is filled with 0.
RollingStd(x, i) ==
    LET w  == WindowValues(x, i)
        n  == Len(w)
        sq == AsTuple([k \in 1..n |-> w[k] * w[k]])
    IN  IF n < 2 THEN SqrtOf(0, 1)
        ELSE SqrtOf(n * SumSeq(sq) - SumSeq(w) * SumSeq(w), n * (n - 1))

\* The division without the guard: a zero denominator gives infinity, or
\* NaN for 0 / 0.
BytesRatioUnguarded(row) ==
    IF row.bytes_received = 0
    THEN Rat(IF row.bytes_sent = 0 THEN NaN ELSE PosInf, 1)
    ELSE Rat(row.bytes_sent, row.bytes_received)

\* _compute_traffic_features: np.where(bytes_received > 0,
\* bytes_sent / bytes_received, 0)
BytesRatio(row) ==
    IF row.bytes_received > 0 THEN Rat(row.bytes_sent, row.bytes_received)
    ELSE Rat(0, 1)

\* A z-score that keeps the size of the deviation and drops its direction.
BytesZscoreUnsigned(x, i) ==
    LET w   == WindowValues(x, i)
        n   == Len(w)
        dev == n * x[i] - SumSeq(w)
        std == RollingStd(x, i)
    IN  IF std.sqrt_of.num > 0
        THEN [sign |-> Sign(dev * dev),
              sqrt_of |-> Rat(dev * dev * (n - 1), n * std.sqrt_of.num)]
        ELSE [sign |-> 0, sqrt_of |-> Rat(0, 1)]

\* _compute_traffic_features: np.where(bytes_std > 0,
\* (total_bytes - bytes_mean) / bytes_std, 0).  With dev = n * x - sum(x) the
\* quotient has the sign of dev and the square dev^2 * (n - 1) over
\* n * (n * sum(x^2) - sum(x)^2).
BytesZscore(x, i) ==
    LET w   == WindowValues(x, i)
        n   == Len(w)
        dev == n * x[i] - SumSeq(w)
        std == RollingStd(x, i)
    IN  IF std.sqrt_of.num > 0
        THEN [sign |-> Sign(dev),
              sqrt_of |-> Rat(dev * dev * (n - 1), n * std.sqrt_of.num)]
        ELSE [sign |-> 0, sqrt_of |-> Rat(0, 1)]

\* _compute_device_features: groupby('device_id').transform('count')
DeviceEventCount(df, i) ==
    Cardinality({j \in 1..Len(df) : df[j].device_id = df[i].device_id})

\* _compute_time_based_aggregations: rolling(window=time_window seconds,
\* on='datetime').count(): the rows up to this one, in sorted order, whose
\* timestamp is later than this row's timestamp minus the window.
EventsPerWindow(self, df, i) ==
    Cardinality({j \in 1..i :
                    df[j].timestamp > df[i].timestamp - self.time_window})

\* __init__: the engineer holds its time window and nothing else.
NewFeatureEngineer == [time_window |-> TIME_WINDOW_SECONDS]

\* The row of the engineered frame at position i of the sorted frame s: the
\* columns of the event and the feature columns.  dt and tb are the
\* delta_t and total_bytes columns, which the rolling statistics read.
FeatureRow(self, s, dt, tb, i) ==
    [id                 |-> s[i].id,
     timestamp          |-> s[i].timestamp,
     device_id          |-> s[i].device_id,
     source_ip          |-> s[i].source_ip,
     bytes_sent         |-> s[i].bytes_sent,
     bytes_received     |-> s[i].bytes_received,
     is_anomaly         |-> s[i].is_anomaly,
     anomaly_score      |-> s[i].anomaly_score,
     delta_t            |-> dt[i],
     delta_t_device     |-> DeltaTDevice(s, i),
     delta_t_source     |-> DeltaTSource(s, i),
     delta_t_mean       |-> RollingMean(dt, i),
     delta_t_std        |-> RollingStd(dt, i),
     events_per_window  |-> EventsPerWindow(self, s, i),
     total_bytes        |-> tb[i],
     bytes_ratio        |-> BytesRatio(s[i]),
     bytes_mean         |-> RollingMean(tb, i),
     bytes_std          |-> RollingStd(tb, i),
     bytes_zscore       |-> BytesZscore(tb, i),
     device_event_count |-> DeviceEventCount(s, i)]

\* The frame after the four feature steps.
FeatureFrame(self, s) ==
    LET dt == AsTuple([i \in 1..Len(s) |-> DeltaT(s, i)])
        tb == AsTuple([i \in 1..Len(s) |->
                          s[i].bytes_sent + s[i].bytes_received])
    IN  AsTuple([i \in 1..Len(s) |-> FeatureRow(self, s, dt, tb, i)])

\* engineer_features that skips the derived columns, all but total_bytes,
\* for a batch too small to train on (fewer than 10 rows).
EngineerFeaturesShortBatch(self, df) ==
    IF df = <<>> THEN df
    ELSE LET s == SortValues(df)
         IN  IF Len(s) >= 10 THEN FeatureFrame(self, s)
             ELSE AsTuple([i \in 1..Len(s) |->
                     [id             |-> s[i].id,
                      timestamp      |-> s[i].timestamp,
                      device_id      |-> s[i].device_id,
                      source_ip      |-> s[i].source_ip,
                      bytes_sent     |-> s[i].bytes_sent,
                      bytes_received |-> s[i].bytes_received,
                      is_anomaly     |-> s[i].is_anomaly,
                      anomaly_score  |-> s[i].anomaly_score,
                      total_bytes    |-> s[i].bytes_sent
                                            + s[i].bytes_received]])

\* engineer_features, its return value: an empty frame is returned as it
\* is; otherwise the frame is copied, sorted by timestamp and given its
\* feature columns.
EngineerFeatures(self, df) ==
    IF df = <<>> THEN df
    ELSE FeatureFrame(self, SortValues(df))

\* The private methods engineer_features runs on a non-empty frame, in the
\* order it runs them.
FeatureSteps ==
    <<"_compute_time_deltas", "_compute_time_based_aggregations",
      "_compute_traffic_features", "_compute_device_features">>

\* engineer_features that sorts the caller's frame itself instead of a copy.
EngineerFeaturesCallInPlace(self, df) ==
    [self     |-> self,
     df       |-> IF df = <<>> THEN df ELSE SortValues(df),
     value    |-> EngineerFeatures(self, df),
     computed |-> IF df = <<>> THEN <<>> ELSE FeatureSteps,
     err      |-> None]

\* engineer_features without the early return for an empty frame.
EngineerFeaturesCallNoEmptyCheck(self, df) ==
    [self     |-> self,
     df       |-> df,
     value    |-> EngineerFeatures(self, df),
     computed |-> FeatureSteps,
     err      |-> None]

\* One call of engineer_features as a whole: the engineer and the caller's
\* frame after the call, the returned frame, and the private methods run.
\* The work is done on df.copy(), and no method assigns to self.
EngineerFeaturesCall(self, df) ==
    [self     |-> self,
     df       |-> df,
     value    |-> EngineerFeatures(self, df),
     computed |-> IF df = <<>> THEN <<>> ELSE FeatureSteps,
     err      |-> None]

\* get_feature_vector: feature_columns, the columns of the model that the
\* source lists, in the order of the source's list.
feature_columns ==
    <<"delta_t", "delta_t_device", "events_per_window", "total_bytes",
      "device_event_count", "bytes_sent", "bytes_received">>

\* available_columns = [col for col in feature_columns if col in df.columns]
AvailableColumns(fdf) ==
    LET present(col) == col \in DOMAIN fdf[1]
    IN  SelectSeq(feature_columns, present)

\* A replacement that only fills NaN and lets the infinities through.
NanToNumNanOnly(X) ==
    AsTuple([i \in 1..Len(X) |->
        AsTuple([c \in 1..Len(X[i]) |->
            IF X[i][c] = NaN THEN 0 ELSE X[i][c]])])

\* np.nan_to_num(X, nan=0.0, posinf=0.0, neginf=0.0)
NanToNum(X) ==
    AsTuple([i \in 1..Len(X) |->
        AsTuple([c \in 1..Len(X[i]) |->
            IF X[i][c] \in NonFinite THEN 0 ELSE X[i][c]])])

\* get_feature_vector: an empty frame gives an empty matrix; otherwise the
\* available feature columns in their fixed order, one matrix row per frame
\* row, in the frame's order, with the non-finite entries replaced by 0.
GetFeatureVector(fdf) ==
    IF fdf = <<>> THEN <<>>
    ELSE LET available_columns == AvailableColumns(fdf)
             X == AsTuple([i \in 1..Len(fdf) |->
                     AsTuple([c \in 1..Len(available_columns) |->
                                 fdf[i][available_columns[c]]])])
         IN  NanToNum(X)

(***************************************************************************)
(* The isolation forest behind the detector.  The library is not part of   *)
(* the repository: it is modelled by what the detector relies on.  fit     *)
(* rebuilds the ensemble from X and the seed alone (warm_start is off),    *)
(* score_samples gives one score per row, lower for rows far from the      *)
(* training data, and predict gives -1 to the rows scoring below the       *)
(* offset that fit sets at the contamination percentile of the training    *)
(* scores.                                                                 *)
(***************************************************************************)
\* _init_model: a new, unfitted IsolationForest with the hyperparameters.
InitModel(c, n, r) ==
    [contamination |-> c, n_estimators |-> n, random_state |-> r,
     fitted |-> FALSE, X_fit |-> <<>>, offset |-> 0]

RowDistance(x, y) ==
    SumSeq(AsTuple([c \in 1..Min(Len(x), Len(y)) |-> Abs(x[c] - y[c])]))

RowScore(X_fit, x) ==
    0 - 1 - SumSeq(AsTuple([j \in 1..Len(X_fit) |->
                               RowDistance(x, X_fit[j])]))

\* self.model.score_samples(X)
ModelScoreSamples(m, X) ==
    AsTuple([i \in 1..Len(X) |-> RowScore(m.X_fit, X[i])])

\* self.model.predict(X)
ModelPredict(m, X) ==
    AsTuple([i \in 1..Len(X) |->
                IF RowScore(m.X_fit, X[i]) < m.offset THEN 0 - 1 ELSE 1])

\* The offset of a fit: the training score at the contamination percentile.
FitOffset(c, X) ==
    LET scores == AsTuple([i \in 1..Len(X) |-> RowScore(X, X[i])])
        perm   == ArgSort(scores)
        k      == (c * Len(X)) \div 100 + 1
    IN  scores[perm[k]]

\* A fit that adds the new rows to those of the fit before it.
ModelFitIncremental(m, X) ==
    [m EXCEPT !.fitted = TRUE, !.X_fit = m.X_fit \o X,
              !.offset = FitOffset(m.contamination, m.X_fit \o X)]

\* self.model.fit(X): the fitted state is replaced.
ModelFit(m, X) ==
    [m EXCEPT !.fitted = TRUE, !.X_fit = X,
              !.offset = FitOffset(m.contamination, X)]

(***************************************************************************)
(* AnomalyDetector: anomaly_detector.py.                                   *)
(***************************************************************************)
\* __init__ with the hyperparameters given by the caller.
AnomalyDetectorInit(c, n, r) ==
    [contamination |-> c,
     n_estimators  |-> n,
     random_state  |-> r,
     model         |-> InitModel(c, n, r),
     is_trained    |-> FALSE]

\* __init__ with the defaults of config.py.
NewDetector == AnomalyDetectorInit(CONTAMINATION, N_ESTIMATORS, RANDOM_STATE)

\* train that marks the detector trained before it looks at X.
TrainFlagFirst(d, X) ==
    IF Len(X) = 0
    THEN [det |-> [d EXCEPT !.is_trained = TRUE], err |-> "ValueError"]
    ELSE [det |-> [d EXCEPT !.model = ModelFit(d.model, X),
                            !.is_trained = TRUE],
          err |-> None]

\* train: raises ValueError on 0 rows before anything is changed.
Train(d, X) ==
    IF Len(X) = 0
    THEN [det |-> d, err |-> "ValueError"]
    ELSE [det |-> [d EXCEPT !.model = ModelFit(d.model, X),
                            !.is_trained = TRUE],
          err |-> None]

\* predict with the empty-input shortcut ahead of the trained check.
PredictEmptyFirst(d, X) ==
    IF Len(X) = 0 THEN [err |-> None, returned |-> TRUE, value |-> <<>>]
    ELSE IF ~d.is_trained THEN [err |-> "RuntimeError", returned |-> FALSE, value |-> <<>>]
    ELSE [err |-> None, returned |-> TRUE, value |-> ModelPredict(d.model, X)]

\* predict
Predict(d, X) ==
    IF ~d.is_trained THEN [err |-> "RuntimeError", returned |-> FALSE, value |-> <<>>]
    ELSE IF Len(X) = 0 THEN [err |-> None, returned |-> TRUE, value |-> <<>>]
    ELSE [err |-> None, returned |-> TRUE, value |-> ModelPredict(d.model, X)]

\* score_samples that hands a matrix of 0 rows on to the library, which
\* rejects it.
ScoreSamplesNoEmptyCheck(d, X) ==
    IF ~d.is_trained THEN [err |-> "RuntimeError", returned |-> FALSE, value |-> <<>>]
    ELSE IF Len(X) = 0 THEN [err |-> "ValueError", returned |-> FALSE, value |-> <<>>]
    ELSE [err |-> None, returned |-> TRUE,
          value |-> ModelScoreSamples(d.model, X)]

\* score_samples
ScoreSamples(d, X) ==
    IF ~d.is_trained THEN [err |-> "RuntimeError", returned |-> FALSE, value |-> <<>>]
    ELSE IF Len(X) = 0 THEN [err |-> None, returned |-> TRUE, value |-> <<>>]
    ELSE [err |-> None, returned |-> TRUE,
          value |-> ModelScoreSamples(d.model, X)]

\* detect_anomalies called while nothing else touches the detector: predict,
\* then score_samples; the first error propagates.
DetectAnomalies(d, X) ==
    LET p == Predict(d, X)
        s == ScoreSamples(d, X)
    IN  IF p.err # None
        THEN [err |-> p.err, returned |-> FALSE, value |-> <<>>]
        ELSE IF s.err # None
        THEN [err |-> s.err, returned |-> FALSE, value |-> <<>>]
        ELSE [err |-> None, returned |-> TRUE, value |-> <<p.value, s.value>>]

(***************************************************************************)
(* Initial values shared by the specifications.                            *)
(***************************************************************************)
\* main.py setup_system and dashboard.py:20-23: one detector each.
Owners == {"cli", "dashboard"}

\* The server threads of the dashboard.
Threads == {1, 2}

\* ai_model.py:19
MODEL_PATH == "models/anomaly_model.pkl"

\* A path the callers of save_model and load_model use.
DetectorPath == "detector.pkl"

Paths == {DetectorPath, MODEL_PATH}

\* The keys of the dictionary save_model pickles, in the order load_model
\* reads them.
ModelDataKeys ==
    <<"model", "contamination", "n_estimators", "random_state", "is_trained">>

\* The content of a path: missing, or a file that is a pickled dictionary
\* with some keys ("dict"), a pickled estimator ("estimator", what
\* train_model.py dumps), or bytes that do not unpickle ("corrupt").
\* writer tells who wrote the file.
NoFile ==
    [kind |-> "missing", keys |-> {}, writer |-> "none",
     model_data |-> NewDetector]

\* No artifact on disk, no model loaded by ai_model, nothing printed.
InitRest ==
    /\ feature_engineer = [o \in Owners |-> NewFeatureEngineer]
    /\ files = [path \in Paths |-> NoFile]
    /\ ANOMALY_MODEL = [kind |-> "None"]
    /\ stdout = <<>>

NoCall ==
    [op |-> "none", X |-> <<>>, before |-> NewDetector, err |-> None,
     returned |-> FALSE, value |-> <<>>]

NoCli ==
    [pc |-> "idle", op |-> "none", limit |-> 0, X |-> <<>>, trainX |-> <<>>,
     trained |-> FALSE, scored |-> FALSE, ok |-> FALSE, updates |-> <<>>,
     predictions |-> <<>>, scores |-> <<>>, features_df |-> <<>>,
     df |-> <<>>, model |-> NewDetector.model, trainColumns |-> <<>>]

IdleReq ==
    [pc |-> "idle", kind |-> "none", limit |-> 0, df |-> <<>>,
     features_df |-> <<>>, X |-> <<>>, trainX |-> <<>>, trained |-> FALSE,
     predictions |-> <<>>, scores |-> <<>>,
     predModel |-> NewDetector.model, scoreModel |-> NewDetector.model,
     updates |-> <<>>, status |-> 0]

(***************************************************************************)
(* SpecDetector: the AnomalyDetector API called in any order on the        *)
(* detector that setup_system constructs.                                  *)
(***************************************************************************)
\* Largest number of rows of a matrix handed to the API directly.
MaxMatrixRows == 2

FeatureRows == {<<0>>, <<1>>, <<5>>}

Matrices == UNION {[1..n -> FeatureRows] : n \in 0..MaxMatrixRows}

InitDetector ==
    /\ network_logs = <<>>
    /\ detector = [o \in Owners |-> NewDetector]
    /\ call = NoCall
    /\ cli = NoCli
    /\ req = [t \in Threads |-> IdleReq]
    /\ ncalls = 0
    /\ InitRest

CallTrain(X) ==
    /\ ncalls < MaxCalls
    /\ LET r == Train(detector["cli"], X)
       IN  /\ detector' = [detector EXCEPT !["cli"] = r.det]
           /\ call' = [op |-> "train", X |-> X, before |-> detector["cli"],
                       err |-> r.err, returned |-> r.err = None,
                       value |-> <<>>]
    /\ ncalls' = ncalls + 1
    /\ UNCHANGED <<restVars, network_logs, cli, req>>

CallPredict(X) ==
    /\ ncalls < MaxCalls
    /\ LET r == Predict(detector["cli"], X)
       IN  call' = [op |-> "predict", X |-> X, before |-> detector["cli"],
                    err |-> r.err, returned |-> r.returned,
                    value |-> r.value]
    /\ ncalls' = ncalls + 1
    /\ UNCHANGED <<restVars, network_logs, detector, cli, req>>

CallScoreSamples(X) ==
    /\ ncalls < MaxCalls
    /\ LET r == ScoreSamples(detector["cli"], X)
       IN  call' = [op |-> "score_samples", X |-> X,
                    before |-> detector["cli"], err |-> r.err,
                    returned |-> r.returned, value |-> r.value]
    /\ ncalls' = ncalls + 1
    /\ UNCHANGED <<restVars, network_logs, detector, cli, req>>

CallDetectAnomalies(X) ==
    /\ ncalls < MaxCalls
    /\ LET r == DetectAnomalies(detector["cli"], X)
       IN  call' = [op |-> "detect_anomalies", X |-> X,
                    before |-> detector["cli"], err |-> r.err,
                    returned |-> r.returned, value |-> r.value]
    /\ ncalls' = ncalls + 1
    /\ UNCHANGED <<restVars, network_logs, detector, cli, req>>

NextDetector ==
    \E X \in Matrices :
        \/ CallTrain(X)
        \/ CallPredict(X)
        \/ CallScoreSamples(X)
        \/ CallDetectAnomalies(X)

SpecDetector == InitDetector /\ [][NextDetector]_vars

\* C1: on a detector that no train call has made trained, predict,
\* score_samples and detect_anomalies fail with the not-trained error
\* (RuntimeError) for every X, the X with 0 rows included, and return nothing.
C1_UntrainedCallsFail ==
    (/\ call.op \in {"predict", "score_samples", "detect_anomalies"}
     /\ ~call.before.is_trained)
        => (call.err = "RuntimeError" /\ ~call.returned)

\* An untrained detector was asked to predict on a matrix of 0 rows.
C1_Witness ==
    /\ call.op = "predict"
    /\ ~call.before.is_trained
    /\ call.X = <<>>
    /\ call.err = "RuntimeError"

\* C8: train on a matrix of 0 rows fails with the invalid-input error
\* (ValueError) and leaves the detector, its trained flag and its fitted
\* model, exactly as before the call.
C8_EmptyTrainRejected ==
    (call.op = "train" /\ Len(call.X) = 0)
        => (call.err = "ValueError" /\ detector["cli"] = call.before)

\* A trained detector was asked to train on a matrix of 0 rows.
C8_Witness ==
    /\ call.op = "train"
    /\ call.X = <<>>
    /\ call.before.is_trained
    /\ call.err = "ValueError"
    /\ detector["cli"].is_trained

\* C9: after a successful train(X2), whatever was trained before, predict and
\* score_samples answer as a fresh detector trained on X2 only.
C9_RetrainReplacesFit ==
    (call.op = "train" /\ call.err = None)
        => \A X \in Matrices :
              /\ Predict(detector["cli"], X)
                   = Predict(Train(NewDetector, call.X).det, X)
              /\ ScoreSamples(detector["cli"], X)
                   = ScoreSamples(Train(NewDetector, call.X).det, X)

\* A trained detector was retrained on other data, and the earlier fit
\* scored some matrix differently than the detector does now.
C9_Witness ==
    /\ call.op = "train"
    /\ call.err = None
    /\ call.before.is_trained
    /\ call.before.model.X_fit # call.X
    /\ \E X \in Matrices :
          ScoreSamples(call.before, X) # ScoreSamples(detector["cli"], X)

\* The answer for row i of X alone.
RowAnswer(op, d, X, i) ==
    IF op = "predict" THEN Predict(d, <<X[i]>>).value[1]
    ELSE ScoreSamples(d, <<X[i]>>).value[1]

\* One value per row of X, in the order of the rows.
RowAligned(op, d, X, value) ==
    /\ Len(value) = Len(X)
    /\ \A i \in 1..Len(X) : value[i] = RowAnswer(op, d, X, i)

\* C15: on a trained detector predict and score_samples return without
\* error one value per row of X, in row order, every label being 1 or -1,
\* and the empty result for an X of 0 rows; detect_anomalies returns the
\* predictions and the scores, both of the length of X and row-aligned.
C15_OneValuePerRow ==
    call.before.is_trained
        => /\ call.op \in {"predict", "score_samples"}
                 => /\ call.err = None /\ call.returned
                    /\ RowAligned(call.op, call.before, call.X, call.value)
                    /\ call.op = "predict"
                          => \A i \in 1..Len(call.value) :
                                call.value[i] \in {1, 0 - 1}
           /\ call.op = "detect_anomalies"
                 => /\ call.err = None /\ call.returned
                    /\ RowAligned("predict", call.before, call.X,
                                  call.value[1])
                    /\ RowAligned("score_samples", call.before, call.X,
                                  call.value[2])
                    /\ \A i \in 1..Len(call.value[1]) :
                          call.value[1][i] \in {1, 0 - 1}

\* A trained detector gave two rows of one matrix different labels and
\* different scores in one detect_anomalies call.
C15_Witness ==
    /\ call.op = "detect_anomalies"
    /\ call.before.is_trained
    /\ Len(call.X) = 2
    /\ call.value[1][1] = 1
    /\ call.value[1][2] = 0 - 1
    /\ call.value[2][1] > call.value[2][2]

\* A trained detector was asked to score a matrix of 0 rows.
C15_WitnessEmpty ==
    /\ call.op = "score_samples"
    /\ call.before.is_trained
    /\ call.X = <<>>
    /\ call.returned

(***************************************************************************)
(* SpecStore: update_anomaly_status called directly on a populated store.  *)
(***************************************************************************)
\* Largest store of the store specification.
MaxStoreRows == 3

Scores == {0 - 7, 0 - 2}

InitStore ==
    /\ \E n \in 0..MaxStoreRows, p \in Patterns :
          network_logs = InsertLogsBatch(n, p)
    /\ detector = [o \in Owners |-> NewDetector]
    /\ call = NoCall
    /\ cli = NoCli
    /\ req = [t \in Threads |-> IdleReq]
    /\ ncalls = 0
    /\ InitRest

\* One call of update_anomaly_status.  A call the database refuses (the
\* file is locked or cannot be written) raises and changes nothing.
CallUpdateAnomalyStatus(log_id, is_anomaly, anomaly_score, raises) ==
    /\ ncalls < MaxCalls
    /\ LET r == UpdateAnomalyStatus(network_logs, log_id, is_anomaly,
                                    anomaly_score)
       IN  /\ network_logs' = IF raises THEN network_logs ELSE r.logs
           /\ call' = [op |-> "update_anomaly_status", log_id |-> log_id,
                       is_anomaly |-> is_anomaly,
                       anomaly_score |-> anomaly_score,
                       logs_before |-> network_logs,
                       err |-> IF raises THEN "sqlite3.Error" ELSE r.outcome]
    /\ ncalls' = ncalls + 1
    /\ UNCHANGED <<restVars, detector, cli, req>>

\* The limit argument: /api/recent-logs passes on the integer of the query
\* string, whatever its sign.
LimitValues == (0 - 1)..(MaxStoreRows + 1)

\* One call of get_recent_logs; it reads the table and changes nothing.
CallGetRecentLogs(limit) ==
    /\ ncalls < MaxCalls
    /\ call' = [op |-> "get_recent_logs", limit |-> limit,
                value |-> GetRecentLogs(network_logs, limit),
                logs_before |-> network_logs, err |-> None]
    /\ ncalls' = ncalls + 1
    /\ UNCHANGED <<restVars, network_logs, detector, cli, req>>

NextStore ==
    \/ \E log_id \in 0..(MaxStoreRows + 1), is_anomaly \in BOOLEAN,
          anomaly_score \in Scores, raises \in BOOLEAN :
           CallUpdateAnomalyStatus(log_id, is_anomaly, anomaly_score, raises)
    \/ \E limit \in LimitValues : CallGetRecentLogs(limit)

SpecStore == InitStore /\ [][NextStore]_vars

RowIds(logs) == {logs[i].id : i \in 1..Len(logs)}

\* C6: update_anomaly_status with an event id that is not in the store is
\* reported to the caller as a failure, and it adds no row.
C6_MissingIdReported ==
    (/\ call.op = "update_anomaly_status"
     /\ call.log_id \notin RowIds(call.logs_before))
        => (call.err # None /\ network_logs = call.logs_before)

\* C24: get_recent_logs(limit) returns at most limit events, those with the
\* greatest timestamps in the store, in descending order of timestamp, for
\* every store content and every limit value.
C24_RecentLogsBounded ==
    call.op = "get_recent_logs"
        => /\ Len(call.value) <= call.limit
           /\ \A i \in 1..Len(call.value) :
                 \E k \in 1..Len(call.logs_before) :
                     call.logs_before[k] = call.value[i]
           /\ \A i, j \in 1..Len(call.value) :
                 i < j => /\ call.value[i].timestamp >= call.value[j].timestamp
                          /\ call.value[i].id # call.value[j].id
           /\ \A k \in 1..Len(call.logs_before) :
                 call.logs_before[k].id \notin RowIds(call.value)
                     => \A i \in 1..Len(call.value) :
                           call.value[i].timestamp
                               >= call.logs_before[k].timestamp

(***************************************************************************)
(* The scoring orchestrators: main.py and dashboard.py.                    *)
(***************************************************************************)
Limits == {SmallLimit, DefaultTrainLimit}

\* The event id taken from the frame as the store returned it.
LogIdAtUnsorted(df, features_df, idx) == df[idx].id

\* log_id = features_df.iloc[idx]['id']: the id carried by the sorted frame.
LogIdAt(df, features_df, idx) == features_df[idx].id

\* The update_anomaly_status calls of the writeback loop, in loop order:
\* for idx, (pred, score) in enumerate(zip(predictions, scores)).
WritebackCalls(df, features_df, predictions, scores) ==
    AsTuple([idx \in 1..Min(Len(predictions), Len(scores)) |->
        [log_id        |-> LogIdAt(df, features_df, idx),
         is_anomaly    |-> predictions[idx] = 0 - 1,
         anomaly_score |-> scores[idx]]])

\* What the store holds for an event id: its two result columns.
StoredResult(logs, log_id) ==
    LET hit == {i \in 1..Len(logs) : logs[i].id = log_id}
    IN  IF hit = {} THEN <<>>
        ELSE LET i == CHOOSE i \in hit : TRUE
             IN  <<logs[i].is_anomaly, logs[i].anomaly_score>>

\* One call of the loop, as the pass saw it: its arguments, whether it
\* raised, and the result columns of the row right after it.
UpdateRecord(c, raised, logs) ==
    [log_id |-> c.log_id, is_anomaly |-> c.is_anomaly,
     anomaly_score |-> c.anomaly_score, raised |-> raised,
     stored |-> StoredResult(logs, c.log_id)]

\* The rows at which an update of a writeback loop is made to raise: the
\* first, the second, or none.
FailPoints == {1, 2, MaxRows + 1}

\* The writeback loop.  The calls before failAt are made one after the other;
\* the call at failAt raises, which leaves the loop: no later call is made.
\* failAt beyond the last call means that no call raises.
RECURSIVE RunWriteback(_, _, _, _, _)
RunWriteback(logs, calls, k, failAt, done) ==
    IF k > Len(calls)
    THEN [logs |-> logs, updates |-> done, raised |-> FALSE]
    ELSE IF k = failAt
    THEN [logs |-> logs,
          updates |-> Append(done, UpdateRecord(calls[k], TRUE, logs)),
          raised |-> TRUE]
    ELSE LET r == UpdateAnomalyStatus(logs, calls[k].log_id,
                       calls[k].is_anomaly, calls[k].anomaly_score)
         IN  RunWriteback(r.logs, calls, k + 1, failAt,
                 Append(done, UpdateRecord(calls[k], FALSE, r.logs)))

\* train_model_cli: fetch, engineer, refuse fewer than 10 rows, train.
TrainModelCli(logs, d, limit) ==
    LET df          == GetRecentLogs(logs, limit)
        features_df == EngineerFeatures(feature_engineer["cli"], df)
        X           == GetFeatureVector(features_df)
        r           == Train(d, X)
    IN  IF df = <<>>
        THEN [ok |-> FALSE, det |-> d, trained |-> FALSE, trainX |-> <<>>,
              df |-> df, features_df |-> df, X |-> <<>>, columns |-> <<>>]
        ELSE IF Len(X) < MinTrainSamples
        THEN [ok |-> FALSE, det |-> d, trained |-> FALSE, trainX |-> <<>>,
              df |-> df, features_df |-> features_df, X |-> X,
              columns |-> <<>>]
        ELSE [ok |-> r.err = None, det |-> r.det, trained |-> TRUE,
              trainX |-> X, df |-> df, features_df |-> features_df, X |-> X,
              columns |-> AvailableColumns(features_df)]

\* python main.py --train: train_model_cli as a whole.
CliTrain(limit) ==
    /\ ncalls < MaxHandlers
    /\ cli.pc \in {"idle", "done"}
    /\ LET r == TrainModelCli(network_logs, detector["cli"], limit)
       IN  /\ detector' = [detector EXCEPT !["cli"] = r.det]
           /\ cli' = [NoCli EXCEPT !.pc = "done", !.op = "train",
                                   !.limit = limit, !.df = r.df,
                                   !.features_df = r.features_df,
                                   !.X = r.X, !.trainX = r.trainX,
                                   !.trainColumns = r.columns,
                                   !.trained = r.trained, !.ok = r.ok]
    /\ ncalls' = ncalls + 1
    /\ UNCHANGED <<restVars, network_logs, call, req>>

\* python main.py --analyze: analyze_data_cli up to the writeback loop.  It
\* fetches and engineers; on an untrained detector it trains through
\* train_model_cli, called with that function's default limit, and gives up
\* when that fails; then it detects.
CliAnalyze(limit) ==
    /\ ncalls < MaxHandlers
    /\ cli.pc \in {"idle", "done"}
    /\ LET df          == GetRecentLogs(network_logs, limit)
           features_df == EngineerFeatures(feature_engineer["cli"], df)
           X           == GetFeatureVector(features_df)
           untrained   == ~detector["cli"].is_trained
           t           == TrainModelCli(network_logs, detector["cli"],
                                        DefaultTrainLimit)
           d           == IF untrained THEN t.det ELSE detector["cli"]
           r           == DetectAnomalies(d, X)
       IN  IF df = <<>>
           THEN /\ cli' = [NoCli EXCEPT !.pc = "done", !.op = "analyze",
                                        !.limit = limit]
                /\ UNCHANGED detector
           ELSE IF untrained /\ ~t.ok
           THEN /\ cli' = [NoCli EXCEPT !.pc = "done", !.op = "analyze",
                                        !.limit = limit, !.df = df,
                                        !.features_df = features_df,
                                        !.X = X, !.trainX = t.trainX,
                                        !.trainColumns = t.columns,
                                        !.trained = t.trained]
                /\ detector' = [detector EXCEPT !["cli"] = t.det]
           ELSE /\ cli' = [NoCli EXCEPT
                             !.pc = IF r.err = None THEN "write" ELSE "done",
                             !.op = "analyze", !.limit = limit, !.df = df,
                             !.features_df = features_df, !.X = X,
                             !.trainX = IF untrained THEN t.trainX ELSE <<>>,
                             !.trainColumns = IF untrained THEN t.columns
                                              ELSE <<>>,
                             !.trained = untrained,
                             !.scored = r.err = None,
                             !.model = d.model,
                             !.predictions = IF r.err = None
                                             THEN r.value[1] ELSE <<>>,
                             !.scores = IF r.err = None
                                        THEN r.value[2] ELSE <<>>]
                /\ detector' = [detector EXCEPT !["cli"] = d]
    /\ ncalls' = ncalls + 1
    /\ UNCHANGED <<restVars, network_logs, call, req>>

\* The writeback loop of analyze_data_cli and the printed results.  An
\* update that raises ends the handler with the exception.
CliWriteback(failAt) ==
    /\ cli.pc = "write"
    /\ LET w == RunWriteback(network_logs,
                    WritebackCalls(cli.df, cli.features_df, cli.predictions,
                                   cli.scores),
                    1, failAt, <<>>)
       IN  /\ network_logs' = w.logs
           /\ cli' = [cli EXCEPT !.updates = w.updates, !.pc = "done",
                                 !.ok = ~w.raised]
    /\ UNCHANGED <<restVars, detector, call, req, ncalls>>

\* A request arrives at a free server thread: /api/analyze or
\* /api/train-model.  The handler fetches the recent logs, engineers the
\* features and extracts the matrix; no data, or too little data for
\* /api/train-model, is answered with 400.
DashStart(t, kind, limit) ==
    /\ ncalls < MaxHandlers
    /\ req[t].pc \in {"idle", "done"}
    /\ LET df          == GetRecentLogs(network_logs, limit)
           features_df == EngineerFeatures(feature_engineer["dashboard"], df)
           X           == GetFeatureVector(features_df)
           refused     == \/ df = <<>>
                          \/ Len(X) = 0
                          \/ kind = "train" /\ Len(X) < MinTrainSamples
       IN  req' = [req EXCEPT ![t] =
                     [IdleReq EXCEPT
                        !.kind = kind, !.limit = limit, !.df = df,
                        !.features_df = features_df, !.X = X,
                        !.pc = IF refused THEN "done"
                               ELSE IF kind = "train" THEN "train"
                               ELSE "check",
                        !.status = IF refused THEN 400 ELSE 0]]
    /\ ncalls' = ncalls + 1
    /\ UNCHANGED <<restVars, network_logs, detector, call, cli>>

\* analyze_logs: if not anomaly_detector.is_trained
DashCheckTrained(t) ==
    /\ req[t].pc = "check"
    /\ req' = [req EXCEPT ![t].pc = IF detector["dashboard"].is_trained
                                    THEN "predict" ELSE "train"]
    /\ UNCHANGED <<restVars, network_logs, detector, call, cli, ncalls>>

\* anomaly_detector.train(X) on the shared detector, in analyze_logs and in
\* train_model; train_model then answers 200.
DashTrain(t) ==
    /\ req[t].pc = "train"
    /\ LET r == Train(detector["dashboard"], req[t].X)
       IN  /\ detector' = [detector EXCEPT !["dashboard"] = r.det]
           /\ req' = [req EXCEPT
                        ![t].trained = TRUE,
                        ![t].trainX = req[t].X,
                        ![t].pc = IF r.err # None \/ req[t].kind = "train"
                                  THEN "done" ELSE "predict",
                        ![t].status = IF r.err # None THEN 500
                                      ELSE IF req[t].kind = "train" THEN 200
                                      ELSE 0]
    /\ UNCHANGED <<restVars, network_logs, call, cli, ncalls>>

\* detect_anomalies, first half: predictions = self.predict(X)
DashPredict(t) ==
    /\ req[t].pc = "predict"
    /\ LET r == Predict(detector["dashboard"], req[t].X)
       IN  req' = [req EXCEPT
                     ![t].predictions = r.value,
                     ![t].predModel = detector["dashboard"].model,
                     ![t].pc = IF r.err # None THEN "done" ELSE "score",
                     ![t].status = IF r.err # None THEN 500 ELSE 0]
    /\ UNCHANGED <<restVars, network_logs, detector, call, cli, ncalls>>

\* detect_anomalies, second half: scores = self.score_samples(X)
DashScore(t) ==
    /\ req[t].pc = "score"
    /\ LET r == ScoreSamples(detector["dashboard"], req[t].X)
       IN  req' = [req EXCEPT
                     ![t].scores = r.value,
                     ![t].scoreModel = detector["dashboard"].model,
                     ![t].pc = IF r.err # None THEN "done" ELSE "write",
                     ![t].status = IF r.err # None THEN 500 ELSE 0]
    /\ UNCHANGED <<restVars, network_logs, detector, call, cli, ncalls>>

\* The writeback loop of analyze_logs and the answer: 200 with the analysis,
\* or 500 from the handler's except clause when an update raised.
DashWriteback(t, failAt) ==
    /\ req[t].pc = "write"
    /\ LET w == RunWriteback(network_logs,
                    WritebackCalls(req[t].df, req[t].features_df,
                                   req[t].predictions, req[t].scores),
                    1, failAt, <<>>)
       IN  /\ network_logs' = w.logs
           /\ req' = [req EXCEPT
                        ![t].updates = w.updates,
                        ![t].pc = "done",
                        ![t].status = IF w.raised THEN 500 ELSE 200]
    /\ UNCHANGED <<restVars, detector, call, cli, ncalls>>

(***************************************************************************)
(* Spec: the populated store, the CLI handlers and the dashboard serving   *)
(* requests on its threads.                                                *)
(***************************************************************************)
Init ==
    /\ \E n \in 0..MaxRows, p \in Patterns :
          network_logs = InsertLogsBatch(n, p)
    /\ detector = [o \in Owners |-> NewDetector]
    /\ call = NoCall
    /\ cli = NoCli
    /\ req = [t \in Threads |-> IdleReq]
    /\ ncalls = 0
    /\ InitRest

Next ==
    \/ \E limit \in Limits : CliTrain(limit)
    \/ \E limit \in Limits : CliAnalyze(limit)
    \/ \E failAt \in FailPoints : CliWriteback(failAt)
    \/ \E t \in Threads, kind \in {"analyze", "train"}, limit \in Limits :
          DashStart(t, kind, limit)
    \/ \E t \in Threads : DashCheckTrained(t)
    \/ \E t \in Threads : DashTrain(t)
    \/ \E t \in Threads : DashPredict(t)
    \/ \E t \in Threads : DashScore(t)
    \/ \E t \in Threads, failAt \in FailPoints :
          DashWriteback(t, failAt)

Spec == Init /\ [][Next]_vars

(***************************************************************************)
(* Claims about the orchestrators.                                         *)
(***************************************************************************)
\* A dashboard /api/analyze request, or the CLI analyze handler, has left its
\* writeback loop.
ReqWroteBack(t) == req[t].pc = "done" /\ req[t].updates # <<>>

CliWroteBack == cli.pc = "done" /\ cli.updates # <<>>

\* C2: on every path that can train (CLI train, CLI analyze, /api/train-model,
\* /api/analyze), train is never invoked on fewer than 10 samples, and such a
\* batch offered for training is answered as a failure.
C2_NoTrainBelowMinimum ==
    /\ cli.trained => Len(cli.trainX) >= MinTrainSamples
    /\ (cli.op = "train" /\ cli.pc = "done" /\ Len(cli.X) < MinTrainSamples)
          => ~cli.ok
    /\ \A t \in Threads :
          /\ req[t].trained => Len(req[t].trainX) >= MinTrainSamples
          /\ (/\ req[t].kind = "train"
              /\ req[t].pc = "done"
              /\ Len(req[t].X) < MinTrainSamples) => req[t].status = 400

\* C3: when an analyze request finds the model untrained, the matrix passed
\* to train is the matrix of the batch that the request scores.
C3_TrainsOnScoredBatch ==
    /\ (cli.op = "analyze" /\ cli.trained) => cli.trainX = cli.X
    /\ \A t \in Threads :
          (req[t].kind = "analyze" /\ req[t].trained)
              => req[t].trainX = req[t].X

\* The updates of one pass carry, for their event id, the prediction and the
\* score the model gave to the feature row of that event, and the store
\* holds them after the call.
PassWritesMatchRows(features_df, updates, predModel, scoreModel) ==
    \A k \in 1..Len(updates) :
        LET u    == updates[k]
            rows == {j \in 1..Len(features_df) :
                        features_df[j].id = u.log_id}
        IN  /\ Cardinality(rows) = 1
            /\ \A j \in rows :
                  LET x == GetFeatureVector(<<features_df[j]>>)
                  IN  /\ u.is_anomaly = (ModelPredict(predModel, x)[1] = 0 - 1)
                      /\ u.anomaly_score = ModelScoreSamples(scoreModel, x)[1]
            /\ ~u.raised
                  => u.stored = <<IF u.is_anomaly THEN 1 ELSE 0,
                                  u.anomaly_score>>

\* C4: whatever the order of the fetched rows, the flag and the score that a
\* scoring pass writes to an event id are the prediction (flag true exactly
\* for -1) and the score of that event's own feature row, and they are what
\* the store then holds for that id.
C4_WritesMatchRows ==
    /\ PassWritesMatchRows(cli.features_df, cli.updates, cli.model, cli.model)
    /\ \A t \in Threads :
          PassWritesMatchRows(req[t].features_df, req[t].updates,
                              req[t].predModel, req[t].scoreModel)

\* A pass answered 200 that fetched its rows in another order than the sorted
\* frame has them, and that flagged some rows and not others.
C4_Witness ==
    \E t \in Threads :
        /\ ReqWroteBack(t)
        /\ req[t].status = 200
        /\ req[t].df[1].id # req[t].features_df[1].id
        /\ \E j, k \in 1..Len(req[t].updates) :
              /\ req[t].updates[j].is_anomaly
              /\ ~req[t].updates[k].is_anomaly
              /\ req[t].updates[j].anomaly_score
                    # req[t].updates[k].anomaly_score

\* Every row of the pass's batch had its update attempted.
AllRowsAttempted(features_df, updates) ==
    \A j \in 1..Len(features_df) :
        \E k \in 1..Len(updates) : updates[k].log_id = features_df[j].id

\* C5: when update_anomaly_status fails for one event during the writeback,
\* the updates of the remaining rows of the batch are still attempted.
C5_WritebackContinuesAfterFailure ==
    /\ CliWroteBack => AllRowsAttempted(cli.features_df, cli.updates)
    /\ \A t \in Threads :
          ReqWroteBack(t)
              => AllRowsAttempted(req[t].features_df, req[t].updates)

\* C7: the predictions and the scores of one detect_anomalies call come from
\* the same fitted state: no train of another request runs between them.
C7_DetectUsesOneFit ==
    \A t \in Threads :
        (req[t].pc \in {"write", "done"} /\ req[t].scores # <<>>)
            => req[t].predModel = req[t].scoreModel

\* The descriptive columns of a row.
Descriptive(row) ==
    <<row.id, row.timestamp, row.device_id, row.bytes_sent,
      row.bytes_received>>

\* In a finished pass every event of the fetched batch has exactly one
\* update call, and no other event has one.
OneUpdatePerEvent(df, updates) ==
    /\ \A j \in 1..Len(df) :
          Cardinality({k \in 1..Len(updates) :
                          updates[k].log_id = df[j].id}) = 1
    /\ \A k \in 1..Len(updates) :
          \E j \in 1..Len(df) : df[j].id = updates[k].log_id

\* C10: a scoring pass calls update_anomaly_status exactly once for each
\* event of its batch and for no other event, and no step adds or removes a
\* row or changes an id or a descriptive column.
C10_OneUpdatePerBatchEvent ==
    [][/\ Len(network_logs') = Len(network_logs)
       /\ \A i \in 1..Len(network_logs) :
             Descriptive(network_logs'[i]) = Descriptive(network_logs[i])
       /\ CliWroteBack' => OneUpdatePerEvent(cli'.df, cli'.updates)
       /\ \A t \in Threads :
             ReqWroteBack(t)'
                 => OneUpdatePerEvent(req'[t].df, req'[t].updates)]_vars

\* The numbers of columns of the rows of a matrix.
ColumnCounts(X) == {Len(X[i]) : i \in 1..Len(X)}

\* C12: every matrix an orchestrator trains on or scores comes from
\* get_feature_vector with the full list of feature columns in its one
\* order, so a model is never scored with a matrix whose columns, their
\* number or their order differ from those it was trained with.
C12_SameColumnsTrainAndScore ==
    /\ cli.trained
          => /\ cli.trainColumns = feature_columns
             /\ ColumnCounts(cli.trainX) = {Len(feature_columns)}
    /\ cli.scored
          => /\ AvailableColumns(cli.features_df) = feature_columns
             /\ ColumnCounts(cli.X) = ColumnCounts(cli.model.X_fit)
    /\ \A t \in Threads :
          /\ req[t].trained
                => /\ AvailableColumns(req[t].features_df) = feature_columns
                   /\ ColumnCounts(req[t].trainX) = {Len(feature_columns)}
          /\ req[t].predictions # <<>>
                => /\ AvailableColumns(req[t].features_df) = feature_columns
                   /\ ColumnCounts(req[t].X)
                         = ColumnCounts(req[t].predModel.X_fit)
          /\ req[t].scores # <<>>
                => ColumnCounts(req[t].X)
                      = ColumnCounts(req[t].scoreModel.X_fit)

\* An /api/analyze request scored its batch with a model that another
\* handler had trained on a batch of another size.
C12_Witness ==
    \E t \in Threads :
        /\ req[t].kind = "analyze"
        /\ ~req[t].trained
        /\ req[t].scores # <<>>
        /\ Len(req[t].scoreModel.X_fit) # Len(req[t].X)

(***************************************************************************)
(* SpecFeatures: engineer_features and get_feature_vector called directly  *)
(* on batches of events in any order, and on feature tables that hold      *)
(* non-finite values.                                                      *)
(***************************************************************************)
\* Largest batch handed to the feature engineer directly.
MaxBatchRows == 3

\* Two timestamps further apart than the time window.
BatchTimestamps == {10, 80}

\* The byte counts of row i under byte pattern b: each pattern has rows that
\* received nothing, and pattern 1 starts with a row that sent nothing
\* either.
BytePatterns == {0, 1}

BytesSentOf(b, i) == 100 * ((i + 2 * b) % 3)

BytesReceivedOf(b, i) == 100 * ((i + b) % 2)

\* The short batches: row i has id i and any of the timestamps; the rows
\* alternate between two devices, and the first row has a source address of
\* its own.
ShortBatches ==
    UNION {{AsTuple([i \in 1..n |->
                [id             |-> i,
                 timestamp      |-> ts[i],
                 device_id      |-> IF i % 2 = 1 THEN "D1" ELSE "D2",
                 source_ip      |-> IF i = 1 THEN "10.0.0.2" ELSE "10.0.0.1",
                 bytes_sent     |-> BytesSentOf(b, i),
                 bytes_received |-> BytesReceivedOf(b, i),
                 is_anomaly     |-> 0,
                 anomaly_score  |-> 0]]) :
              ts \in [1..n -> BatchTimestamps], b \in BytePatterns} :
           n \in 0..MaxBatchRows}

\* Three events of one device at t, t + 1 and t + 2, the last one with a
\* burst of sent bytes.
ScenarioA ==
    AsTuple([i \in 1..3 |->
        [id             |-> i,
         timestamp      |-> 9 + i,
         device_id      |-> "D1",
         source_ip      |-> "10.0.0.1",
         bytes_sent     |-> IF i = 3 THEN 5000 ELSE 100,
         bytes_received |-> 100,
         is_anomaly     |-> 0,
         anomaly_score  |-> 0]])

\* The batches main.py reads from a store of MaxRows rows, longer than the
\* rolling window.
LongBatches ==
    {GetRecentLogs(InsertLogsBatch(MaxRows, p), DefaultTrainLimit) :
        p \in Patterns}

Batches == ShortBatches \cup {ScenarioA} \cup LongBatches

InitFeatures ==
    /\ network_logs = <<>>
    /\ detector = [o \in Owners |-> NewDetector]
    /\ call = NoCall
    /\ cli = NoCli
    /\ req = [t \in Threads |-> IdleReq]
    /\ ncalls = 0
    /\ InitRest

\* feature_engineer.engineer_features(df).  The call record keeps the frame
\* and the result of the engineer_features call before it when that call
\* got the same frame.
CallEngineerFeatures(df) ==
    /\ ncalls < MaxCalls
    /\ LET r      == EngineerFeaturesCall(feature_engineer["cli"], df)
           repeat == /\ call.op \in {"engineer_features", "get_feature_vector"}
                     /\ call.src_df = df
       IN  /\ feature_engineer' = [feature_engineer EXCEPT !["cli"] = r.self]
           /\ call' = [op |-> "engineer_features", df |-> df,
                       df_after |-> r.df, value |-> r.value,
                       computed |-> r.computed, err |-> r.err,
                       src_df |-> df, src_value |-> r.value,
                       repeat |-> repeat,
                       between |-> repeat /\ call.op = "get_feature_vector",
                       prev_value |-> IF repeat THEN call.src_value ELSE <<>>]
    /\ ncalls' = ncalls + 1
    /\ UNCHANGED <<network_logs, detector, cli, req, files, ANOMALY_MODEL,
                   stdout>>

\* The frame with the cell of row i, column col replaced by v.
WithCell(fdf, i, col, v) ==
    AsTuple([k \in 1..Len(fdf) |->
                IF k = i THEN [fdf[k] EXCEPT ![col] = v] ELSE fdf[k]])

\* feature_engineer.get_feature_vector(fdf), called after engineer_features.
CallGetFeatureVector(fdf) ==
    /\ ncalls < MaxCalls
    /\ call.op = "engineer_features"
    /\ call' = [op |-> "get_feature_vector", df |-> fdf,
                value |-> GetFeatureVector(fdf), err |-> None,
                src_df |-> call.src_df, src_value |-> call.src_value]
    /\ ncalls' = ncalls + 1
    /\ UNCHANGED <<network_logs, detector, cli, req, restVars>>

\* get_feature_vector gets the frame that the last engineer_features call
\* returned, as it is or with one non-finite cell.
NextFeatures ==
    \/ \E df \in Batches : CallEngineerFeatures(df)
    \/ \E i \in 0..MaxBatchRows, c \in 1..Len(feature_columns),
          v \in NonFinite \cup {0} :
          CallGetFeatureVector(
              IF v = 0 \/ i = 0 \/ i > Len(call.value) THEN call.value
              ELSE WithCell(call.value, i, feature_columns[c], v))

SpecFeatures == InitFeatures /\ [][NextFeatures]_vars

\* C11: for a non-empty batch, engineer_features returns as many rows as it
\* got, in non-decreasing order of timestamp; every input id is carried by
\* exactly one output row, and each output row has the descriptive fields of
\* the input event whose id it carries.
C11_EngineerKeepsRows ==
    (call.op = "engineer_features" /\ call.df # <<>>)
        => /\ Len(call.value) = Len(call.df)
           /\ \A j \in 1..(Len(call.value) - 1) :
                 call.value[j].timestamp <= call.value[j + 1].timestamp
           /\ \A i \in 1..Len(call.df) :
                 Cardinality({j \in 1..Len(call.value) :
                                 call.value[j].id = call.df[i].id}) = 1
           /\ \A j \in 1..Len(call.value) :
                 \E i \in 1..Len(call.df) :
                     /\ call.df[i].id = call.value[j].id
                     /\ Descriptive(call.df[i]) = Descriptive(call.value[j])

\* A batch of three events given latest first, two of them at one timestamp,
\* came back in another order than it was given.
C11_Witness ==
    /\ call.op = "engineer_features"
    /\ Len(call.df) = 3
    /\ call.df[1].timestamp > call.df[2].timestamp
    /\ call.df[2].timestamp = call.df[3].timestamp
    /\ call.value[1].id # call.df[1].id
    /\ call.value[3].id = call.df[1].id

\* C13: every entry of the matrix get_feature_vector returns is finite: an
\* entry whose table cell is NaN, +infinity or -infinity is 0, and every
\* other entry is the table cell itself.
C13_MatrixIsFinite ==
    call.op = "get_feature_vector"
        => \A i \in 1..Len(call.value) :
              \A c \in 1..Len(call.value[i]) :
                  LET cell == call.df[i][AvailableColumns(call.df)[c]]
                  IN  /\ call.value[i][c] \notin NonFinite
                      /\ call.value[i][c]
                            = IF cell \in NonFinite THEN 0 ELSE cell

\* A table with +infinity in one cell and finite non-zero cells beside it
\* was turned into a matrix.
C13_Witness ==
    /\ call.op = "get_feature_vector"
    /\ \E i \in 1..Len(call.df) :
          /\ call.df[i].delta_t = PosInf
          /\ call.value[i][1] = 0
          /\ call.value[i][4] = call.df[i].total_bytes
          /\ call.df[i].total_bytes > 0

C20_EmptyBatchGivesEmptyMatrix ==
    /\ (call.op = "engineer_features" /\ call.df = <<>>)
          => (call.value = <<>> /\ call.computed = <<>> /\ call.err = None)
    /\ (call.op = "get_feature_vector" /\ call.df = <<>>)
          => (Len(call.value) = 0 /\ call.err = None)

\* The empty batch went through engineer_features and its empty table
\* through get_feature_vector.
C20_Witness ==
    /\ call.op = "get_feature_vector"
    /\ call.src_df = <<>>
    /\ call.df = <<>>
    /\ call.value = <<>>

\* A feature that is not a whole number is zero when its numerator is.
IsZeroStd(std) == std.sqrt_of.num = 0

IsZeroZscore(z) == z.sign = 0 /\ z.sqrt_of.num = 0

\* C21: for a batch of exactly one event, engineer_features raises nothing
\* and gives delta_t, delta_t_device, delta_t_source, delta_t_std, bytes_std
\* and bytes_zscore all equal to 0, whatever the fields of the event.
C21_SingleEventFeaturesAreZero ==
    (call.op = "engineer_features" /\ Len(call.df) = 1)
        => /\ call.err = None
           /\ Len(call.value) = 1
           /\ call.value[1].delta_t = 0
           /\ call.value[1].delta_t_device = 0
           /\ call.value[1].delta_t_source = 0
           /\ IsZeroStd(call.value[1].delta_t_std)
           /\ IsZeroStd(call.value[1].bytes_std)
           /\ IsZeroZscore(call.value[1].bytes_zscore)

\* A single event that sent and received nothing was engineered.
C21_Witness ==
    /\ call.op = "engineer_features"
    /\ Len(call.df) = 1
    /\ call.df[1].bytes_sent = 0
    /\ call.df[1].bytes_received = 0
    /\ call.err = None
    /\ IsZeroStd(call.value[1].bytes_std)

\* C22: bytes_ratio is 0 for every event with bytes_received = 0, whatever
\* bytes_sent is, and computing it raises nothing; for every event with
\* bytes_received > 0 it is bytes_sent / bytes_received.
C22_BytesRatioGuarded ==
    call.op = "engineer_features"
        => /\ call.err = None
           /\ \A i \in 1..Len(call.value) :
                 LET row == call.value[i]
                 IN  /\ row.bytes_ratio.den > 0
                     /\ row.bytes_received = 0 => row.bytes_ratio.num = 0
                     /\ row.bytes_received > 0
                           => row.bytes_ratio.num * row.bytes_received
                                = row.bytes_sent * row.bytes_ratio.den

\* A batch held an event that sent bytes and received none, with ratio 0,
\* and an event that received bytes, with a ratio of 2.
C22_Witness ==
    /\ call.op = "engineer_features"
    /\ call.err = None
    /\ \E i \in 1..Len(call.value) :
          /\ call.value[i].bytes_received = 0
          /\ call.value[i].bytes_sent > 0
          /\ call.value[i].bytes_ratio.num = 0
    /\ \E i \in 1..Len(call.value) :
          /\ call.value[i].bytes_received > 0
          /\ call.value[i].bytes_ratio.num
                = 2 * call.value[i].bytes_ratio.den

\* C23: bytes_zscore is 0 for every row whose trailing bytes_std is 0 and
\* otherwise has the sign of total_bytes minus the trailing mean; in
\* scenario A the first two rows have bytes_zscore 0 and the third row has
\* a positive bytes_zscore.
C23_ZscoreSignAndScenarioA ==
    call.op = "engineer_features"
        => /\ \A i \in 1..Len(call.value) :
                 LET row == call.value[i]
                 IN  IF IsZeroStd(row.bytes_std)
                     THEN IsZeroZscore(row.bytes_zscore)
                     ELSE /\ row.bytes_zscore.sign
                               = Sign(row.total_bytes * row.bytes_mean.den
                                        - row.bytes_mean.num)
                          /\ row.bytes_zscore.sign # 0
                                => row.bytes_zscore.sqrt_of.num > 0
           /\ call.df = ScenarioA
                 => /\ IsZeroZscore(call.value[1].bytes_zscore)
                    /\ IsZeroZscore(call.value[2].bytes_zscore)
                    /\ call.value[3].bytes_zscore.sign = 1
                    /\ call.value[3].bytes_zscore.sqrt_of.num > 0

\* Scenario A was engineered, and its third row has a positive z-score.
C23_Witness ==
    /\ call.op = "engineer_features"
    /\ call.df = ScenarioA
    /\ call.value[3].total_bytes = 5100
    /\ call.value[3].bytes_zscore.sign = 1

\* A batch whose last row carries fewer bytes than its trailing mean, with
\* a negative z-score.
C23_WitnessNegative ==
    /\ call.op = "engineer_features"
    /\ \E i \in 1..Len(call.value) : call.value[i].bytes_zscore.sign = 0 - 1

\* C25: events_per_window of a row is the number of events of the whole
\* batch, of any device, whose timestamp lies in the trailing time window
\* that ends at the row's timestamp, the row included; rows that share a
\* timestamp get the same count.
C25_WindowCountsWholeBatch ==
    call.op = "engineer_features"
        => \A i \in 1..Len(call.value) :
              /\ call.value[i].events_per_window
                    = Cardinality({j \in 1..Len(call.value) :
                          /\ call.value[j].timestamp
                                > call.value[i].timestamp
                                    - TIME_WINDOW_SECONDS
                          /\ call.value[j].timestamp
                                <= call.value[i].timestamp})
              /\ \A j \in 1..Len(call.value) :
                    call.value[j].timestamp = call.value[i].timestamp
                        => call.value[j].events_per_window
                             = call.value[i].events_per_window

\* The closest earlier row of the frame with the same value of a column.
PrevInGroup(fdf, col, i) ==
    {j \in 1..(i - 1) :
        /\ fdf[j][col] = fdf[i][col]
        /\ \A k \in (j + 1)..(i - 1) : fdf[k][col] # fdf[i][col]}

\* C26: delta_t_device (delta_t_source) of a row is its timestamp minus the
\* timestamp of the closest earlier row, in sorted order, with the same
\* device id (source address), and 0 for the first row of each device
\* (source); the rows of other groups in between have no influence.
C26_GroupDeltasUseOwnGroup ==
    call.op = "engineer_features"
        => \A i \in 1..Len(call.value) :
              LET row == call.value[i]
                  dev == PrevInGroup(call.value, "device_id", i)
                  src == PrevInGroup(call.value, "source_ip", i)
              IN  /\ dev = {} => row.delta_t_device = 0
                  /\ \A j \in dev :
                        row.delta_t_device
                          = row.timestamp - call.value[j].timestamp
                  /\ src = {} => row.delta_t_source = 0
                  /\ \A j \in src :
                        row.delta_t_source
                          = row.timestamp - call.value[j].timestamp

\* A row whose device was last seen two rows before it, with a row of the
\* other device at a later timestamp in between.
C26_Witness ==
    /\ call.op = "engineer_features"
    /\ \E i \in 3..Len(call.value) :
          /\ call.value[i].device_id = call.value[i - 2].device_id
          /\ call.value[i].device_id # call.value[i - 1].device_id
          /\ call.value[i - 1].timestamp > call.value[i - 2].timestamp
          /\ call.value[i].delta_t_device
                = call.value[i].timestamp - call.value[i - 2].timestamp
          /\ call.value[i].delta_t_device # call.value[i].delta_t

\* C27: delta_t of the first output row is 0, and delta_t of every other
\* row is its timestamp minus the timestamp of the row before it in the
\* sorted batch, whatever the order of the input rows; every delta_t is
\* at least 0.
C27_DeltaTOfSortedBatch ==
    (call.op = "engineer_features" /\ call.df # <<>>)
        => /\ call.value[1].delta_t = 0
           /\ \A j \in 1..Len(call.df) :
                 call.value[1].timestamp <= call.df[j].timestamp
           /\ \A i \in 2..Len(call.value) :
                 call.value[i].delta_t
                   = call.value[i].timestamp - call.value[i - 1].timestamp
           /\ \A i \in 1..Len(call.value) : call.value[i].delta_t >= 0

\* A batch given latest first came back with a positive delta_t.
C27_Witness ==
    /\ call.op = "engineer_features"
    /\ Len(call.df) >= 2
    /\ call.df[1].timestamp > call.df[2].timestamp
    /\ \E i \in 2..Len(call.value) : call.value[i].delta_t > 0

\* The rows the rolling statistics of position i cover, by the claim.
TrailingRows(i) == Max(1, i - 9)..i

\* The fraction m is the mean of column col over the rows w of the frame.
IsMeanOf(m, fdf, col, w) ==
    /\ m.den > 0
    /\ m.num * Cardinality(w)
         = m.den * SumSeq(AsTuple([k \in 1..Cardinality(w) |->
                       fdf[(CHOOSE lo \in w : \A x \in w : lo <= x) + k - 1][col]]))

\* std is the sample standard deviation of column col over the rows w of
\* the frame, and 0 for fewer than two rows: with n rows of sum S, its
\* square is sum((n * x - S)^2) over n^2 * (n - 1).
IsStdOf(std, fdf, col, w) ==
    LET n  == Cardinality(w)
        lo == CHOOSE l \in w : \A x \in w : l <= x
        xs == AsTuple([k \in 1..n |-> fdf[lo + k - 1][col]])
        S  == SumSeq(xs)
        sq == AsTuple([k \in 1..n |-> (n * xs[k] - S) * (n * xs[k] - S)])
    IN  IF n < 2 THEN IsZeroStd(std)
        ELSE /\ std.sqrt_of.den = n * (n - 1)
             /\ n * std.sqrt_of.num = SumSeq(sq)

\* C28: delta_t_mean and bytes_mean at sorted position i are the mean of
\* delta_t and total_bytes over positions max(0, i - 9) to i (at most 10
\* rows, fewer at the start); delta_t_std and bytes_std are the standard
\* deviation over the same rows, and 0 when the window has fewer than 2.
C28_RollingStatsOverTenRows ==
    call.op = "engineer_features"
        => \A i \in 1..Len(call.value) :
              LET row == call.value[i]
                  w   == TrailingRows(i)
              IN  /\ IsMeanOf(row.delta_t_mean, call.value, "delta_t", w)
                  /\ IsMeanOf(row.bytes_mean, call.value, "total_bytes", w)
                  /\ IsStdOf(row.delta_t_std, call.value, "delta_t", w)
                  /\ IsStdOf(row.bytes_std, call.value, "total_bytes", w)

\* A batch longer than the rolling window: its last row has statistics
\* over ten rows, with a deviation above 0, and its first row a deviation
\* of 0.
C28_Witness ==
    /\ call.op = "engineer_features"
    /\ Len(call.value) > RollingWindow
    /\ call.value[Len(call.value)].bytes_mean.den = RollingWindow
    /\ call.value[Len(call.value)].delta_t_mean.den = RollingWindow
    /\ ~IsZeroStd(call.value[Len(call.value)].bytes_std)
    /\ IsZeroStd(call.value[1].bytes_std)

(***************************************************************************)
(* SpecPersistence: save_model and load_model of two detectors built with  *)
(* different hyperparameters, on a path that other programs can write too. *)
(***************************************************************************)
Range(seq) == {seq[i] : i \in 1..Len(seq)}

\* The outcomes of writing the file in save_model: written, open() raises,
\* or pickle.dump raises after open() has truncated the file.
WriteOutcomes == {"ok", "open_raises", "dump_raises"}

\* save_model without the is_trained check: whatever the detector holds is
\* pickled.
SaveModelAnyState(d, fs, filepath, io) ==
    IF io = "open_raises" THEN [files |-> fs, err |-> "OSError"]
    ELSE IF io = "dump_raises"
    THEN [files |-> [fs EXCEPT ![filepath] =
                        [kind |-> "corrupt", keys |-> {},
                         writer |-> "save_model", model_data |-> d]],
          err |-> "PicklingError"]
    ELSE [files |-> [fs EXCEPT ![filepath] =
                        [kind |-> "dict", keys |-> Range(ModelDataKeys),
                         writer |-> "save_model", model_data |-> d]],
          err |-> None]

\* save_model: refuses an untrained detector; otherwise pickles the model,
\* the three hyperparameters and the flag as one dictionary.
SaveModel(d, fs, filepath, io) ==
    IF ~d.is_trained THEN [files |-> fs, err |-> "RuntimeError"]
    ELSE IF io = "open_raises" THEN [files |-> fs, err |-> "OSError"]
    ELSE IF io = "dump_raises"
    THEN [files |-> [fs EXCEPT ![filepath] =
                        [kind |-> "corrupt", keys |-> {},
                         writer |-> "save_model", model_data |-> d]],
          err |-> "PicklingError"]
    ELSE [files |-> [fs EXCEPT ![filepath] =
                        [kind |-> "dict", keys |-> Range(ModelDataKeys),
                         writer |-> "save_model", model_data |-> d]],
          err |-> None]

\* The assignments of load_model, one key after the other: the first key the
\* dictionary lacks raises KeyError and the assignments before it stay.
RECURSIVE AssignLoaded(_, _, _)
AssignLoaded(d, f, k) ==
    IF k > Len(ModelDataKeys) THEN [det |-> d, err |-> None]
    ELSE IF ModelDataKeys[k] \notin f.keys THEN [det |-> d, err |-> "KeyError"]
    ELSE AssignLoaded([d EXCEPT ![ModelDataKeys[k]] =
                                    f.model_data[ModelDataKeys[k]]],
                      f, k + 1)

\* load_model that starts over with a fresh untrained model when the file
\* does not exist.
LoadModelFallback(d, fs, filepath) ==
    IF fs[filepath].kind = "missing"
    THEN [det |-> AnomalyDetectorInit(d.contamination, d.n_estimators,
                                      d.random_state),
          err |-> None]
    ELSE IF fs[filepath].kind = "corrupt"
    THEN [det |-> d, err |-> "UnpicklingError"]
    ELSE IF fs[filepath].kind = "estimator"
    THEN [det |-> d, err |-> "TypeError"]
    ELSE AssignLoaded(d, fs[filepath], 1)

\* load_model: FileNotFoundError when the path does not exist; pickle.load
\* raises on bytes that do not unpickle; subscripting an object that is not
\* a dictionary raises TypeError; otherwise the five assignments.
LoadModel(d, fs, filepath) ==
    IF fs[filepath].kind = "missing"
    THEN [det |-> d, err |-> "FileNotFoundError"]
    ELSE IF fs[filepath].kind = "corrupt"
    THEN [det |-> d, err |-> "UnpicklingError"]
    ELSE IF fs[filepath].kind = "estimator"
    THEN [det |-> d, err |-> "TypeError"]
    ELSE AssignLoaded(d, fs[filepath], 1)

\* A second detector, built with hyperparameters of its own.
OtherDetector == AnomalyDetectorInit(20, 50, 7)

\* The files another program can leave at the path: bytes that do not
\* unpickle, a bare estimator, or a dictionary with only the first keys.
ForeignFiles ==
    {[kind |-> "corrupt", keys |-> {}, writer |-> "other",
      model_data |-> NewDetector],
     [kind |-> "estimator", keys |-> {}, writer |-> "other",
      model_data |-> NewDetector]}
    \cup {[kind |-> "dict",
           keys |-> {ModelDataKeys[j] : j \in 1..k},
           writer |-> "other",
           model_data |-> Train(AnomalyDetectorInit(30, 10, 1),
                                <<<<5>>>>).det] :
             k \in 0..(Len(ModelDataKeys) - 1)}

\* The matrices the detectors are trained on here.
TrainMatrices == {<<>>, <<<<0>>, <<1>>>>, <<<<5>>>>}

InitPersistence ==
    /\ network_logs = <<>>
    /\ detector = [o \in Owners |->
                      IF o = "cli" THEN NewDetector ELSE OtherDetector]
    /\ call = NoCall
    /\ cli = NoCli
    /\ req = [t \in Threads |-> IdleReq]
    /\ ncalls = 0
    /\ InitRest

\* detector o: save_model(filepath)
CallSaveModel(o, filepath, io) ==
    /\ ncalls < MaxCalls
    /\ LET r == SaveModel(detector[o], files, filepath, io)
       IN  /\ files' = r.files
           /\ call' = [op |-> "save_model", owner |-> o,
                       filepath |-> filepath, before |-> detector[o],
                       file |-> files[filepath], err |-> r.err]
    /\ ncalls' = ncalls + 1
    /\ UNCHANGED <<network_logs, detector, cli, req, feature_engineer,
                   ANOMALY_MODEL, stdout>>

\* detector o: load_model(filepath)
CallLoadModel(o, filepath) ==
    /\ ncalls < MaxCalls
    /\ LET r == LoadModel(detector[o], files, filepath)
       IN  /\ detector' = [detector EXCEPT ![o] = r.det]
           /\ call' = [op |-> "load_model", owner |-> o,
                       filepath |-> filepath, before |-> detector[o],
                       file |-> files[filepath], err |-> r.err]
    /\ ncalls' = ncalls + 1
    /\ UNCHANGED <<network_logs, cli, req, restVars>>

\* Another program writes the file.
ForeignWrite(filepath, f) ==
    /\ ncalls < MaxCalls
    /\ files' = [files EXCEPT ![filepath] = f]
    /\ ncalls' = ncalls + 1
    /\ UNCHANGED <<network_logs, detector, call, cli, req, feature_engineer,
                   ANOMALY_MODEL, stdout>>

NextPersistence ==
    \/ \E X \in TrainMatrices : CallTrain(X)
    \/ \E o \in Owners, io \in WriteOutcomes :
          CallSaveModel(o, DetectorPath, io)
    \/ \E o \in Owners : CallLoadModel(o, DetectorPath)
    \/ \E f \in ForeignFiles : ForeignWrite(DetectorPath, f)

SpecPersistence == InitPersistence /\ [][NextPersistence]_vars

\* C16: load_model on a path where no file exists fails with an error
\* (FileNotFoundError) and leaves the model, the hyperparameters and the
\* is_trained flag of the detector as they were.
C16_MissingFileLoadFails ==
    (call.op = "load_model" /\ call.file.kind = "missing")
        => /\ call.err = "FileNotFoundError"
           /\ detector[call.owner] = call.before

\* A trained detector was asked to load a path that does not exist.
C16_Witness ==
    /\ call.op = "load_model"
    /\ call.file.kind = "missing"
    /\ call.before.is_trained
    /\ call.err = "FileNotFoundError"
    /\ detector[call.owner].is_trained

\* C17: load_model of a file that save_model wrote makes the loading
\* detector trained, with the saved hyperparameters and the saved fitted
\* model, predicting and scoring as the saved detector; and a load_model that
\* fails leaves the detector as it was.
C17_SavedAndLoadedAsOneUnit ==
    call.op = "load_model"
        => /\ (call.file.writer = "save_model" /\ call.file.kind = "dict")
                 => /\ call.err = None
                    /\ detector[call.owner].is_trained
                    /\ detector[call.owner] = call.file.model_data
                    /\ \A X \in Matrices :
                          /\ Predict(detector[call.owner], X)
                                = Predict(call.file.model_data, X)
                          /\ ScoreSamples(detector[call.owner], X)
                                = ScoreSamples(call.file.model_data, X)
           /\ call.err # None => detector[call.owner] = call.before

(***************************************************************************)
(* SpecSaveLoad: the calls of two detectors on a path that only save_model *)
(* writes.                                                                 *)
(***************************************************************************)
NextSaveLoad ==
    \/ \E X \in TrainMatrices : CallTrain(X)
    \/ \E X \in TrainMatrices : CallPredict(X)
    \/ \E X \in TrainMatrices : CallScoreSamples(X)
    \/ \E X \in TrainMatrices : CallDetectAnomalies(X)
    \/ \E o \in Owners, io \in WriteOutcomes :
          CallSaveModel(o, DetectorPath, io)
    \/ \E o \in Owners : CallLoadModel(o, DetectorPath)

SpecSaveLoad == InitPersistence /\ [][NextSaveLoad]_vars

\* C29: the trained flag never reverts: after every train, predict,
\* score_samples, detect_anomalies, save_model and load_model call (of files
\* that save_model wrote), successful or failing, a detector that was
\* trained is still trained; save_model on an untrained detector fails and
\* writes nothing, so no file holds is_trained = false.
C29_TrainedFlagNeverReverts ==
    [][
        /\ \A o \in Owners :
             detector[o].is_trained => detector'[o].is_trained
        /\ (/\ ncalls' # ncalls
            /\ call'.op = "save_model"
            /\ ~call'.before.is_trained)
               => (call'.err = "RuntimeError" /\ files' = files)
        /\ \A path \in Paths :
             files'[path].kind = "dict"
                 => files'[path].model_data.is_trained
    ]_vars

\* A detector that was never trained loaded the file a trained detector
\* saved, and is trained; the saving detector is still trained.
C29_Witness ==
    /\ call.op = "load_model"
    /\ call.err = None
    /\ call.file.writer = "save_model"
    /\ ~call.before.is_trained
    /\ detector[call.owner].is_trained
    /\ \E o \in Owners : o # call.owner /\ detector[o].is_trained

\* save_model of an untrained detector failed and left no file.
C29_WitnessRefused ==
    /\ call.op = "save_model"
    /\ ~call.before.is_trained
    /\ call.err = "RuntimeError"
    /\ files[call.filepath].kind = "missing"

(***************************************************************************)
(* SpecAiModel: ai_model.py, the process-wide model that load_model picks  *)
(* and predict_anomaly uses.  A risk score is a number of two-hundredths   *)
(* and a raw score a number of hundredths, so that                         *)
(* 1.0 - (raw_score + 1.0) / 2.0 is exact.                                *)
(***************************************************************************)
NoModel == [kind |-> "None"]

\* MockAnomalyModel()
MockModel == [kind |-> "MockAnomalyModel"]

\* The messages load_model prints.
MsgLoaded == "AI Model loaded successfully"
MsgNotFound == "Warning: Model not found. Initializing Mock Model for simulation."
MsgLoadError == "Error loading model. Falling back to Mock Model."

\* What joblib.load gives for a file that unpickles.
LoadedObject(f) ==
    IF f.kind = "estimator" THEN [kind |-> "IsolationForest"]
    ELSE [kind |-> "dict"]

\* load_model without the try/except around the load.
AiLoadModelUnguarded(global, fs, out) ==
    IF global # NoModel
    THEN [model |-> global, stdout |-> out, err |-> None, read |-> FALSE]
    ELSE IF fs[MODEL_PATH].kind = "missing"
    THEN [model |-> MockModel, stdout |-> Append(out, MsgNotFound),
          err |-> None, read |-> FALSE]
    ELSE IF fs[MODEL_PATH].kind = "corrupt"
    THEN [model |-> global, stdout |-> out, err |-> "UnpicklingError",
          read |-> TRUE]
    ELSE [model |-> LoadedObject(fs[MODEL_PATH]),
          stdout |-> Append(out, MsgLoaded), err |-> None, read |-> TRUE]

\* load_model without the early return: the artifact is looked for again
\* on every call.
AiLoadModelReloading(global, fs, out) ==
    IF fs[MODEL_PATH].kind = "missing"
    THEN [model |-> MockModel, stdout |-> Append(out, MsgNotFound),
          err |-> None, read |-> FALSE]
    ELSE IF fs[MODEL_PATH].kind = "corrupt"
    THEN [model |-> MockModel, stdout |-> Append(out, MsgLoadError),
          err |-> None, read |-> TRUE]
    ELSE [model |-> LoadedObject(fs[MODEL_PATH]),
          stdout |-> Append(out, MsgLoaded), err |-> None, read |-> TRUE]

\* load_model: the instance chosen before is returned as it is; otherwise
\* the artifact is loaded when the path exists, the mock is taken when it
\* does not or when loading raises, and each case prints its message.
\* model is both the returned value and the new ANOMALY_MODEL; read tells
\* whether joblib.load was called on the artifact.
AiLoadModel(global, fs, out) ==
    IF global # NoModel
    THEN [model |-> global, stdout |-> out, err |-> None, read |-> FALSE]
    ELSE IF fs[MODEL_PATH].kind = "missing"
    THEN [model |-> MockModel, stdout |-> Append(out, MsgNotFound),
          err |-> None, read |-> FALSE]
    ELSE IF fs[MODEL_PATH].kind = "corrupt"
    THEN [model |-> MockModel, stdout |-> Append(out, MsgLoadError),
          err |-> None, read |-> TRUE]
    ELSE [model |-> LoadedObject(fs[MODEL_PATH]),
          stdout |-> Append(out, MsgLoaded), err |-> None, read |-> TRUE]

\* The features monitor.py hands to predict_anomaly: the reconnect delta in
\* seconds and the packet length.
FeatureInputs ==
    [reconnect_delta : {1, 4, 99}, packet_length : {200, 1200}]

\* random.uniform(-0.1, 0.1) of the mock, in hundredths.
Noise == {0 - 10, 0, 10}

\* The raw scores a loaded estimator can return, in hundredths.
RawScores == {0 - 300, 0 - 101, 0 - 100, 0 - 98, 0 - 50, 0, 50, 98, 100, 300}

\* MockAnomalyModel.predict for one row.
MockPredict(features) ==
    IF features.reconnect_delta < 5 \/ features.packet_length > 1000
    THEN 0 - 1 ELSE 1

\* MockAnomalyModel.decision_function for one row, in hundredths:
\* 0.5 - (packet_length / 2000 + 10 / (reconnect_delta + 1)) + noise.
MockDecisionFunction(features, noise) ==
    50 - ((features.packet_length * 100) \div 2000
            + 1000 \div (features.reconnect_delta + 1))
       + noise

\* The scaling and the clamp of predict_anomaly without the clamp.
FinalRiskScoreUnclamped(raw_score) == 100 - raw_score

\* risk_score = 1.0 - (raw_score + 1.0) / 2.0, then
\* max(0.01, min(0.99, risk_score)); the result in two-hundredths.
FinalRiskScore(raw_score) ==
    LET risk_score == 200 - (raw_score + 100)
    IN  Max(2, Min(198, risk_score))

\* predict_anomaly with the model load_model returned.  raw is the score an
\* estimator returns and noise the mock's random term.  An object without
\* decision_function raises AttributeError.
PredictAnomaly(model, features, raw, noise) ==
    IF model.kind = "dict"
    THEN [err |-> "AttributeError", anomaly_flag |-> "", raw_score |-> 0,
          final_risk_score |-> 0]
    ELSE LET raw_score  == IF model.kind = "MockAnomalyModel"
                           THEN MockDecisionFunction(features, noise)
                           ELSE raw
             prediction == IF model.kind = "MockAnomalyModel"
                           THEN MockPredict(features)
                           ELSE IF raw < 0 THEN 0 - 1 ELSE 1
         IN  [err |-> None,
              anomaly_flag |-> IF prediction = 0 - 1 THEN "YES" ELSE "NO",
              raw_score |-> raw_score,
              final_risk_score |-> FinalRiskScore(raw_score)]

InitAiModel ==
    /\ network_logs = <<>>
    /\ detector = [o \in Owners |-> NewDetector]
    /\ call = NoCall
    /\ cli = NoCli
    /\ req = [t \in Threads |-> IdleReq]
    /\ ncalls = 0
    /\ InitRest

\* ai_model.load_model()
CallAiLoadModel ==
    /\ ncalls < MaxCalls
    /\ LET r == AiLoadModel(ANOMALY_MODEL, files, stdout)
       IN  /\ ANOMALY_MODEL' = IF r.err = None THEN r.model
                                ELSE ANOMALY_MODEL
           /\ stdout' = r.stdout
           /\ call' = [op |-> "load_model", global |-> ANOMALY_MODEL,
                       file |-> files[MODEL_PATH], model |-> r.model,
                       read |-> r.read,
                       printed |-> SubSeq(r.stdout, Len(stdout) + 1,
                                          Len(r.stdout)),
                       err |-> r.err]
    /\ ncalls' = ncalls + 1
    /\ UNCHANGED <<network_logs, detector, cli, req, feature_engineer, files>>

\* ai_model.predict_anomaly(features): load_model(), then the verdict.
CallPredictAnomaly(features, raw, noise) ==
    /\ ncalls < MaxCalls
    /\ LET l == AiLoadModel(ANOMALY_MODEL, files, stdout)
           r == PredictAnomaly(l.model, features, raw, noise)
       IN  /\ ANOMALY_MODEL' = IF l.err = None THEN l.model
                                ELSE ANOMALY_MODEL
           /\ stdout' = l.stdout
           /\ call' = [op |-> "predict_anomaly", global |-> ANOMALY_MODEL,
                       file |-> files[MODEL_PATH], model |-> l.model,
                       read |-> l.read,
                       printed |-> SubSeq(l.stdout, Len(stdout) + 1,
                                          Len(l.stdout)),
                       features |-> features,
                       err |-> IF l.err # None THEN l.err ELSE r.err,
                       anomaly_flag |-> r.anomaly_flag,
                       raw_score |-> r.raw_score,
                       final_risk_score |-> r.final_risk_score]
    /\ ncalls' = ncalls + 1
    /\ UNCHANGED <<network_logs, detector, cli, req, feature_engineer, files>>

NextAiModel ==
    \/ CallAiLoadModel
    \/ \E features \in FeatureInputs, raw \in RawScores, noise \in Noise :
          CallPredictAnomaly(features, raw, noise)
    \/ \E f \in ForeignFiles : ForeignWrite(MODEL_PATH, f)

SpecAiModel == InitAiModel /\ [][NextAiModel]_vars

\* The messages that report the fallback to the mock.
FallbackMessages == {MsgNotFound, MsgLoadError}

\* C18: load_model never raises; when no model was chosen yet and the
\* artifact is missing or loading it raises, it returns the mock and prints
\* a message reporting the fallback; and predict_anomaly with the mock
\* returns a verdict.
C18_FallbackIsReported ==
    /\ call.op = "load_model"
          => /\ call.err = None
             /\ (call.global = NoModel
                   /\ call.file.kind \in {"missing", "corrupt"})
                   => /\ call.model = MockModel
                      /\ ANOMALY_MODEL = MockModel
                      /\ Len(call.printed) = 1
                      /\ call.printed[1] \in FallbackMessages
    /\ (call.op = "predict_anomaly" /\ call.model = MockModel)
          => /\ call.err = None
             /\ call.anomaly_flag \in {"YES", "NO"}
             /\ (call.global = NoModel)
                   => /\ Len(call.printed) = 1
                      /\ call.printed[1] \in FallbackMessages

\* load_model found an artifact that does not unpickle, fell back to the
\* mock and said so.
C18_Witness ==
    /\ call.op = "load_model"
    /\ call.global = NoModel
    /\ call.file.kind = "corrupt"
    /\ call.model = MockModel
    /\ call.printed = <<MsgLoadError>>

\* C19: the risk score predict_anomaly returns lies in [0.01, 0.99]
\* (2 to 198 two-hundredths) for every feature input and every raw score,
\* and a lower raw score never gives a lower risk score.
C19_RiskScoreClampedAndMonotonic ==
    (call.op = "predict_anomaly" /\ call.err = None)
        => /\ call.final_risk_score >= 2
           /\ call.final_risk_score <= 198
           /\ call.final_risk_score = FinalRiskScore(call.raw_score)
           /\ \A other \in RawScores :
                 /\ other < call.raw_score
                       => FinalRiskScore(other) >= call.final_risk_score
                 /\ other > call.raw_score
                       => FinalRiskScore(other) <= call.final_risk_score

\* A loaded estimator returned a raw score below -1, which the linear
\* formula alone would turn into a risk above 1.
C19_Witness ==
    /\ call.op = "predict_anomaly"
    /\ call.model.kind = "IsolationForest"
    /\ call.raw_score < 0 - 100
    /\ call.final_risk_score = 198
    /\ call.anomaly_flag = "YES"

=============================================================================
